---- MODULE Spec2Model ----
(***************************************************************************)
(* Model of src/homework.py: the fitness-tracker calculator.               *)
(*                                                                         *)
(* The program computes with Python numbers: `int` (arbitrary precision)   *)
(* and `float` (IEEE-754 binary64, round-to-nearest-even).  Both are       *)
(* modelled exactly.  A natural number is a little-endian sequence of      *)
(* limbs in base 2^15 with no leading zero limb (<<>> is 0), so that the   *)
(* model checker's 32-bit integers never overflow.  A Python number is a   *)
(* record [t, m, e]: an int n is [t |-> "int", m |-> n, e |-> 0]; a float  *)
(* of value m * 2^e is [t |-> "float", m |-> m, e |-> e] with m odd (or    *)
(* m = 0 and e = 0), which is a canonical form: two floats are the same    *)
(* double iff the records are equal.  All values of the program are        *)
(* non-negative and far from the exponent limits, so signs, subnormals,    *)
(* infinities and NaN are not represented.                                 *)
(***************************************************************************)
EXTENDS Integers, Sequences, FiniteSets, TLC

(***************************************************************************)
(* Natural numbers of arbitrary size (Python int).                         *)
(***************************************************************************)
Base == 2^15

Limb(a, i) == IF i >= 1 /\ i <= Len(a) THEN a[i] ELSE 0

RECURSIVE BNorm(_)
BNorm(a) ==
    IF a = <<>> THEN <<>>
    ELSE IF a[Len(a)] = 0 THEN BNorm(SubSeq(a, 1, Len(a) - 1))
    ELSE a

RECURSIVE BFromInt(_)
BFromInt(n) ==
    IF n = 0 THEN <<>>
    ELSE <<n % Base>> \o BFromInt(n \div Base)

\* a + b + c from limb i up, for a carry c
RECURSIVE BAddRec(_, _, _, _)
BAddRec(a, b, i, c) ==
    IF i > Len(a) /\ i > Len(b)
    THEN (IF c = 0 THEN <<>> ELSE <<c>>)
    ELSE <<(Limb(a, i) + Limb(b, i) + c) % Base>>
         \o BAddRec(a, b, i + 1, (Limb(a, i) + Limb(b, i) + c) \div Base)

BAdd(a, b) == BAddRec(a, b, 1, 0)

\* a - b - c from limb i up, for a >= b and a borrow c
RECURSIVE BSubRec(_, _, _, _)
BSubRec(a, b, i, c) ==
    IF i > Len(a) THEN <<>>
    ELSE <<(a[i] - Limb(b, i) - c + Base) % Base>>
         \o BSubRec(a, b, i + 1, IF a[i] - Limb(b, i) - c < 0 THEN 1 ELSE 0)

BSub(a, b) == BNorm(BSubRec(a, b, 1, 0))

\* -1, 0, 1 as a < b, a = b, a > b
RECURSIVE BCmpRec(_, _, _)
BCmpRec(a, b, i) ==
    IF i = 0 THEN 0
    ELSE IF a[i] < b[i] THEN -1
    ELSE IF a[i] > b[i] THEN 1
    ELSE BCmpRec(a, b, i - 1)

BCmp(a, b) ==
    IF Len(a) < Len(b) THEN -1
    ELSE IF Len(a) > Len(b) THEN 1
    ELSE BCmpRec(a, b, Len(a))

BLess(a, b) == BCmp(a, b) = -1

BLeq(a, b) == BCmp(a, b) # 1

\* a * d + c from limb i up, for one limb d and a carry c
RECURSIVE BMulSmallRec(_, _, _, _)
BMulSmallRec(a, d, i, c) ==
    IF i > Len(a)
    THEN (IF c = 0 THEN <<>> ELSE <<c>>)
    ELSE <<(a[i] * d + c) % Base>>
         \o BMulSmallRec(a, d, i + 1, (a[i] * d + c) \div Base)

BMulSmall(a, d) == IF d = 0 THEN <<>> ELSE BMulSmallRec(a, d, 1, 0)

\* a * Base^q
RECURSIVE ShiftLimbs(_, _)
ShiftLimbs(a, q) ==
    IF a = <<>> \/ q = 0 THEN a ELSE ShiftLimbs(<<0>> \o a, q - 1)

\* a * b by Horner's rule from limb i of b down; p is the product of a and
\* the limbs of b above i
RECURSIVE BMulRec(_, _, _, _)
BMulRec(a, b, i, p) ==
    IF i = 0 THEN p
    ELSE IF p = <<>> THEN BMulRec(a, b, i - 1, BMulSmall(a, b[i]))
    ELSE BMulRec(a, b, i - 1, BAdd(<<0>> \o p, BMulSmall(a, b[i])))

BMul(a, b) == BMulRec(a, b, Len(b), <<>>)

\* a * 2^s
BShl(a, s) == ShiftLimbs(BMulSmall(a, 2^(s % 15)), s \div 15)

\* floor(a / 2^r) for r < 15, from limb i up
RECURSIVE BShrRec(_, _, _)
BShrRec(a, r, i) ==
    IF i > Len(a) THEN <<>>
    ELSE <<(a[i] \div 2^r) + (Limb(a, i + 1) % 2^r) * 2^(15 - r)>>
         \o BShrRec(a, r, i + 1)

\* floor(a / 2^s)
BShr(a, s) ==
    IF Len(a) <= s \div 15 THEN <<>>
    ELSE BNorm(BShrRec(SubSeq(a, s \div 15 + 1, Len(a)), s % 15, 1))

\* bit k of a, the lowest being bit 0
BBit(a, k) == (Limb(a, k \div 15 + 1) \div 2^(k % 15)) % 2

RECURSIVE BitLenInt(_)
BitLenInt(n) == IF n = 0 THEN 0 ELSE 1 + BitLenInt(n \div 2)

BBitLen(a) == IF a = <<>> THEN 0 ELSE 15 * (Len(a) - 1) + BitLenInt(a[Len(a)])

RECURSIVE TrailingZerosInt(_)
TrailingZerosInt(n) == IF n % 2 = 1 THEN 0 ELSE 1 + TrailingZerosInt(n \div 2)

\* the number of trailing zero bits of a # 0
RECURSIVE BTrailingZeros(_)
BTrailingZeros(a) ==
    IF a[1] = 0 THEN 15 + BTrailingZeros(Tail(a))
    ELSE TrailingZerosInt(a[1])

\* Division yields <<q, r>>: the limbs of the quotient, unnormalised, and
\* the remainder.  By one limb d, from limb i down; r is the remainder and q
\* the quotient limbs so far.
RECURSIVE BDivSmallRec(_, _, _, _, _)
BDivSmallRec(a, d, i, r, q) ==
    IF i = 0 THEN <<q, r>>
    ELSE IF r * Base + a[i] < d
    THEN BDivSmallRec(a, d, i - 1, r * Base + a[i], <<0>> \o q)
    ELSE BDivSmallRec(a, d, i - 1, (r * Base + a[i]) % d,
                      <<(r * Base + a[i]) \div d>> \o q)

\* Schoolbook long division by b of several limbs, scaled so that its top
\* limb is at least Base / 2: each quotient limb is estimated from the top
\* limbs of the running remainder x, and corrected downwards by QFix.
QEst(b, x) ==
    IF Len(x) < Len(b) THEN 0
    ELSE IF (Limb(x, Len(b) + 1) * Base + x[Len(b)]) \div b[Len(b)] > Base - 1
    THEN Base - 1
    ELSE (Limb(x, Len(b) + 1) * Base + x[Len(b)]) \div b[Len(b)]

RECURSIVE BDivLongRec(_, _, _, _, _)
RECURSIVE QFix(_, _, _, _, _, _)
BDivLongStep(a, b, i, x, q) == QFix(a, b, i, x, q, QEst(b, x))

BDivLongRec(a, b, i, r, q) ==
    IF i = 0 THEN <<q, r>>
    ELSE BDivLongStep(a, b, i, BNorm(<<a[i]>> \o r), q)

QFix(a, b, i, x, q, d) ==
    IF BLeq(BMulSmall(b, d), x)
    THEN BDivLongRec(a, b, i - 1, BSub(x, BMulSmall(b, d)), <<d>> \o q)
    ELSE QFix(a, b, i, x, q, d - 1)

\* the top Len(b) - 1 limbs of a are less than b: the first remainder
BDivLong(a, b) ==
    IF Len(a) < Len(b) THEN <<<<>>, a>>
    ELSE BDivLongRec(a, b, Len(a) - Len(b) + 1,
                     SubSeq(a, Len(a) - Len(b) + 2, Len(a)), <<>>)

BDivLongScaled(a, b, k) == BDivLong(BShl(a, k), BShl(b, k))

\* <<floor(a / b), whether b divides a>>
Exactly(qr, zero) == <<BNorm(qr[1]), qr[2] = zero>>

BDivMod(a, b) ==
    IF Len(b) = 1
    THEN Exactly(BDivSmallRec(a, b[1], Len(a), 0, <<>>), 0)
    ELSE Exactly(BDivLongScaled(a, b, 15 - BitLenInt(b[Len(b)])), <<>>)

(***************************************************************************)
(* Python numbers: int and float (binary64, round to nearest, ties to      *)
(* even), and the arithmetic the program uses on them.                     *)
(***************************************************************************)
DBL_MANT_DIG == 52 + 1

IntOf(m) == [t |-> "int", m |-> m, e |-> 0]

PyInt(n) == IntOf(BFromInt(n))

IsInt(v) == v.t = "int"

FloatZero == [t |-> "float", m |-> <<>>, e |-> 0]

\* the float of exact value m * 2^e, for m # 0 of at most DBL_MANT_DIG
\* bits; z is the number of trailing zero bits of m
CanonZ(m, e, z) == [t |-> "float", m |-> BShr(m, z), e |-> e + z]

Canon(m, e) == CanonZ(m, e, BTrailingZeros(m))

\* the integer nearest to (m + f) / 2^s, ties to even, where s >= 1,
\* 0 <= f < 1 and f # 0 iff sticky
RoundsUp(m, s, sticky) ==
    /\ BBit(m, s - 1) = 1
    /\ \/ sticky
       \/ BTrailingZeros(m) < s - 1
       \/ BBit(m, s) = 1

RoundShift(m, s, sticky) ==
    BAdd(BShr(m, s), IF RoundsUp(m, s, sticky) THEN <<1>> ELSE <<>>)

\* the float nearest to (m + f) * 2^e, ties to even; s is the number of
\* bits m has beyond DBL_MANT_DIG (f # 0 only for s >= 2)
RoundAt(m, e, sticky, s) ==
    IF s <= 0 THEN Canon(m, e)
    ELSE Canon(RoundShift(m, s, sticky), e + s)

RoundF(m, e, sticky) ==
    IF m = <<>> THEN FloatZero
    ELSE RoundAt(m, e, sticky, BBitLen(m) - DBL_MANT_DIG)

\* float(v): the conversion Python applies to an int operand of a mixed
\* operation
ToFloat(v) == IF IsInt(v) THEN RoundF(v.m, 0, FALSE) ELSE v

\* the correctly rounded quotient of the exact values of v and w (w # 0):
\* the numerator is scaled by 2^s so that the integer quotient has more
\* than DBL_MANT_DIG + 1 bits
DivRQ(qr, e) == RoundF(qr[1], e, ~qr[2])

DivRS(v, w, s) == DivRQ(BDivMod(BShl(v.m, s), w.m), v.e - w.e - s)

NonNeg(n) == IF n > 0 THEN n ELSE 0

DivR(v, w) ==
    IF v.m = <<>> THEN FloatZero
    ELSE DivRS(v, w, NonNeg(DBL_MANT_DIG + 2 + BBitLen(w.m) - BBitLen(v.m)))

\* v / w (true division): int / int is the correctly rounded quotient of
\* the two integers; otherwise an int operand is converted to float first
PyTrueDiv(v, w) ==
    IF IsInt(v) = IsInt(w) THEN DivR(v, w)
    ELSE DivR(ToFloat(v), ToFloat(w))

\* v * w: exact on ints, rounded on floats
Times(a, b) ==
    IF IsInt(a) THEN IntOf(BMul(a.m, b.m))
    ELSE RoundF(BMul(a.m, b.m), a.e + b.e, FALSE)

PyMul(v, w) ==
    IF IsInt(v) = IsInt(w) THEN Times(v, w)
    ELSE Times(ToFloat(v), ToFloat(w))

\* v + w: exact on ints, rounded on floats; e is the smaller exponent
PlusAt(a, b, e) ==
    RoundF(BAdd(BShl(a.m, a.e - e), BShl(b.m, b.e - e)), e, FALSE)

Plus(a, b) ==
    IF IsInt(a) THEN IntOf(BAdd(a.m, b.m))
    ELSE PlusAt(a, b, IF a.e < b.e THEN a.e ELSE b.e)

PyAdd(v, w) ==
    IF IsInt(v) = IsInt(w) THEN Plus(v, w)
    ELSE Plus(ToFloat(v), ToFloat(w))

\* v ** 2, as the set of values it may return.  int ** int is exact.  For a
\* float, CPython returns the C library's pow(v, 2.0), which is accurate to
\* within one unit in the last place but not always correctly rounded: the
\* result is one of the two floats that enclose the exact square m * 2^e
\* (the same one when the square is a float); s is as for RoundAt.
EnclosingAt(m, e, s) ==
    IF s <= 0 THEN {Canon(m, e)}
    ELSE {Canon(BAdd(BShr(m, s), up), e + s) :
             up \in {<<>>, IF BTrailingZeros(m) < s THEN <<1>> ELSE <<>>}}

Enclosing(m, e) == EnclosingAt(m, e, BBitLen(m) - DBL_MANT_DIG)

PySquare(v) ==
    IF IsInt(v) THEN {IntOf(BMul(v.m, v.m))}
    ELSE IF v.m = <<>> THEN {v}
    ELSE Enclosing(BMul(v.m, v.m), v.e + v.e)

\* a decimal literal num/den of the source text, e.g. 0.65 as 65/100
FloatLiteral(num, den) == DivR(PyInt(num), PyInt(den))

\* format(v, '.3f') as the number of thousandths printed: v * 1000 rounded
\* to the nearest integer, ties to even
Format3f(v) ==
    IF v.e >= 0 THEN BShl(BMulSmall(v.m, 1000), v.e)
    ELSE RoundShift(BMulSmall(v.m, 1000), 0 - v.e, FALSE)

(***************************************************************************)
(* The classes of src/homework.py.  An object is a record of its class     *)
(* name and its instance attributes.                                       *)
(***************************************************************************)
None == [cls |-> "NoneType"]

\* class attributes; Swimming overrides LEN_STEP and re-declares M_IN_KM
TrainingLEN_STEP == FloatLiteral(65, 100)

\* seeded fault: Swimming does not override LEN_STEP
StepNotOverridden == FloatLiteral(65, 100)

SwimmingLEN_STEP == FloatLiteral(138, 100)

LEN_STEP(self) ==
    IF self.cls = "Swimming" THEN SwimmingLEN_STEP ELSE TrainingLEN_STEP

M_IN_KM == PyInt(1000)

MIN_IN_H == PyInt(60)

CALORIES_MEAN_SPEED_MULTIPLIER == PyInt(18)

CALORIES_MEAN_SPEED_SHIFT == FloatLiteral(179, 100)

KMH_IN_MSEC == FloatLiteral(278, 1000)

CM_IN_M == PyInt(100)

COEFF_WEIGHT == FloatLiteral(35, 1000)

COEFF_WEIGHT_1 == FloatLiteral(29, 1000)

COEFF_MID_SPEED == FloatLiteral(11, 10)

SwimmingCOEFF_WEIGHT == PyInt(2)

\* Training.__init__ and the __init__ of each subclass
Running(action, duration, weight) ==
    [cls |-> "Running", action |-> action, duration |-> duration,
     weight |-> weight]

SportsWalking(action, duration, weight, height) ==
    [cls |-> "SportsWalking", action |-> action, duration |-> duration,
     weight |-> weight, height |-> height]

Swimming(action, duration, weight, length_pool, count_pool) ==
    [cls |-> "Swimming", action |-> action, duration |-> duration,
     weight |-> weight, length_pool |-> length_pool,
     count_pool |-> count_pool]

\* seeded fault: get_distance reads duration where it should read action
DistanceOfDuration(self) ==
    PyTrueDiv(PyMul(self.duration, LEN_STEP(self)), M_IN_KM)

\* Training.get_distance, inherited by every subclass
get_distance(self) == PyTrueDiv(PyMul(self.action, LEN_STEP(self)), M_IN_KM)

\* seeded fault: get_mean_speed does not divide by the duration
SpeedNotDivided(self) == get_distance(self)

\* seeded fault: Swimming does not override get_mean_speed
SwimmingSpeedInherited(self) == PyTrueDiv(get_distance(self), self.duration)

Training_get_mean_speed(self) == PyTrueDiv(get_distance(self), self.duration)

Swimming_get_mean_speed(self) ==
    PyTrueDiv(PyTrueDiv(PyMul(self.length_pool, self.count_pool), M_IN_KM),
              self.duration)

\* get_mean_speed as the method resolution order finds it
get_mean_speed(self) ==
    IF self.cls = "Swimming" THEN Swimming_get_mean_speed(self)
    ELSE Training_get_mean_speed(self)

\* seeded fault: the calories of a run are not converted from minutes
RunningCaloriesPerMinute(self) ==
    PyMul(PyTrueDiv(PyMul(PyAdd(PyMul(CALORIES_MEAN_SPEED_MULTIPLIER,
                                      get_mean_speed(self)),
                                CALORIES_MEAN_SPEED_SHIFT),
                          self.weight),
                    M_IN_KM),
          self.duration)

Running_get_spent_calories(self) ==
    PyMul(PyMul(PyTrueDiv(PyMul(PyAdd(PyMul(CALORIES_MEAN_SPEED_MULTIPLIER,
                                             get_mean_speed(self)),
                                       CALORIES_MEAN_SPEED_SHIFT),
                                 self.weight),
                           M_IN_KM),
                self.duration),
          MIN_IN_H)

\* the values SportsWalking.get_spent_calories may return: one for each
\* value of the ** 2
\* seeded fault: the speed in m/s is not squared
WalkingCaloriesUnsquared(self) ==
    {PyMul(PyMul(PyAdd(PyMul(COEFF_WEIGHT, self.weight),
                       PyMul(PyMul(PyTrueDiv(PyMul(get_mean_speed(self), KMH_IN_MSEC),
                                             PyTrueDiv(self.height, CM_IN_M)),
                                   COEFF_WEIGHT_1),
                             self.weight)),
                 self.duration),
           PyInt(60))}

SportsWalking_get_spent_calories(self) ==
    {PyMul(PyMul(PyAdd(PyMul(COEFF_WEIGHT, self.weight),
                       PyMul(PyMul(PyTrueDiv(sq, PyTrueDiv(self.height, CM_IN_M)),
                                   COEFF_WEIGHT_1),
                             self.weight)),
                 self.duration),
           PyInt(60)) :
        sq \in PySquare(PyMul(get_mean_speed(self), KMH_IN_MSEC))}

Swimming_get_spent_calories(self) ==
    PyMul(PyMul(PyMul(PyAdd(get_mean_speed(self), COEFF_MID_SPEED),
                      SwimmingCOEFF_WEIGHT),
                self.weight),
          self.duration)

\* the set of values get_spent_calories may return
get_spent_calories(self) ==
    IF self.cls = "Running" THEN {Running_get_spent_calories(self)}
    ELSE IF self.cls = "SportsWalking" THEN SportsWalking_get_spent_calories(self)
    ELSE {Swimming_get_spent_calories(self)}

InfoMessage(training_type, duration, distance, speed, calories) ==
    [cls |-> "InfoMessage", training_type |-> training_type,
     duration |-> duration, distance |-> distance, speed |-> speed,
     calories |-> calories]

\* the set of InfoMessage objects show_training_info may return
show_training_info(self) ==
    {InfoMessage(self.cls, self.duration, get_distance(self),
                 get_mean_speed(self), c) : c \in get_spent_calories(self)}

\* InfoMessage.get_message: the text is INFORMATION with the name and the
\* four numbers in '.3f' format, modelled as the record of these five
get_message(self) ==
    [training_type |-> self.training_type,
     duration |-> Format3f(self.duration),
     distance |-> Format3f(self.distance),
     speed |-> Format3f(self.speed),
     calories |-> Format3f(self.calories)]

\* read_package: the object built, or the exception raised.  An unknown
\* code raises KeyError; a data list whose length is not what the class's
\* __init__ takes raises TypeError.
trainings == [SWM |-> "Swimming", RUN |-> "Running", WLK |-> "SportsWalking"]

Raise(exception) == [cls |-> exception]

\* seeded fault: __init__ stores action and duration the wrong way round
ConstructSwapped(class, data) ==
    IF class = "Swimming"
    THEN IF Len(data) = 5
         THEN Swimming(data[2], data[1], data[3], data[4], data[5])
         ELSE Raise("TypeError")
    ELSE IF class = "Running"
    THEN IF Len(data) = 3
         THEN Running(data[2], data[1], data[3])
         ELSE Raise("TypeError")
    ELSE IF Len(data) = 4
         THEN SportsWalking(data[2], data[1], data[3], data[4])
         ELSE Raise("TypeError")

Construct(class, data) ==
    IF class = "Swimming"
    THEN IF Len(data) = 5
         THEN Swimming(data[1], data[2], data[3], data[4], data[5])
         ELSE Raise("TypeError")
    ELSE IF class = "Running"
    THEN IF Len(data) = 3
         THEN Running(data[1], data[2], data[3])
         ELSE Raise("TypeError")
    ELSE IF Len(data) = 4
         THEN SportsWalking(data[1], data[2], data[3], data[4])
         ELSE Raise("TypeError")

\* seeded fault: an unknown code falls back to Running
ReadPackageDefaulting(workout_type, data) ==
    IF workout_type \notin DOMAIN trainings
    THEN Construct("Running", data)
    ELSE Construct(trainings[workout_type], data)

read_package(workout_type, data) ==
    IF workout_type \notin DOMAIN trainings
    THEN Raise("KeyError")
    ELSE Construct(trainings[workout_type], data)

IsException(v) == v.cls \in {"KeyError", "TypeError"}

(***************************************************************************)
(* The program run: the loop of the __main__ block over the packages.      *)
(***************************************************************************)
RECURSIVE Data(_)
Data(l) == IF l = <<>> THEN <<>> ELSE <<PyInt(Head(l))>> \o Data(Tail(l))

\* the literal list of the source
PACKAGES ==
    << <<"SWM", Data(<<720, 1, 80, 25, 40>>)>>,
       <<"RUN", Data(<<15000, 1, 75>>)>>,
       <<"WLK", Data(<<9000, 1, 75, 180>>)>> >>

\* The packages a run may be given: those of the source, the same data
\* under a code that is no key of trainings, a sensor reading of half an
\* hour (a float duration), and a data list of the wrong length.
MaxPackages == 3

UnknownCodes == {"XYZ"}

HalfHour == [t |-> "float", m |-> <<1>>, e |-> -1]

PackagePool ==
    {PACKAGES[k] : k \in 1..Len(PACKAGES)}
    \cup {<<c, PACKAGES[k][2]>> : c \in UnknownCodes, k \in 1..Len(PACKAGES)}
    \cup {<<"RUN", <<PyInt(15000), HalfHour, PyInt(75)>>>>,
          <<"RUN", Data(<<9000, 1, 75, 180>>)>>}

RECURSIVE SeqsUpTo(_, _)
SeqsUpTo(S, n) ==
    IF n = 0 THEN {<<>>}
    ELSE LET shorter == SeqsUpTo(S, n - 1)
         IN  shorter \cup {Append(q, v) : q \in shorter, v \in S}

VARIABLES
    packages,   \* the list the loop runs over
    i,          \* the position of the loop in packages, from 1
    pc,         \* "loop", "main", "done" or "crashed"
    training,   \* the loop's variable training
    message,    \* the last InfoMessage show_training_info returned
    stdout,     \* the lines printed
    exc,        \* the exception that ended the run
    objs,       \* harness: the two objects under test
    called,     \* harness: the method called last
    ret,        \* harness: what it returned, for each object
    infos       \* harness: the InfoMessage of each object, once produced

runVars == <<packages, i, pc, training, message, stdout, exc>>

callVars == <<objs, called, ret, infos>>

vars == <<packages, i, pc, training, message, stdout, exc, objs, called, ret, infos>>

Init ==
    /\ packages \in SeqsUpTo(PackagePool, MaxPackages)
    /\ i = 1
    /\ pc = "loop"
    /\ training = None
    /\ message = None
    /\ stdout = <<>>
    /\ exc = None
    /\ objs = <<>>
    /\ called = "none"
    /\ ret = <<>>
    /\ infos = <<>>

\* seeded fault: the loop catches the exception and goes on to the next
\* package
ReadPackageSkipping ==
    /\ pc = "loop"
    /\ i <= Len(packages)
    /\ LET r == read_package(packages[i][1], packages[i][2])
       IN  \/ /\ IsException(r)
              /\ i' = i + 1
              /\ pc' = "loop"
              /\ UNCHANGED training
           \/ /\ ~IsException(r)
              /\ training' = r
              /\ pc' = "main"
              /\ UNCHANGED i
    /\ UNCHANGED <<packages, message, stdout, exc>>
    /\ UNCHANGED <<objs, called, ret, infos>>

\* training = read_package(workout_type, data), or the exception it raises,
\* which nothing catches
ReadPackage ==
    /\ pc = "loop"
    /\ i <= Len(packages)
    /\ LET r == read_package(packages[i][1], packages[i][2])
       IN  \/ /\ IsException(r)
              /\ exc' = r
              /\ pc' = "crashed"
              /\ UNCHANGED training
           \/ /\ ~IsException(r)
              /\ training' = r
              /\ pc' = "main"
              /\ UNCHANGED exc
    /\ UNCHANGED <<packages, i, message, stdout>>
    /\ UNCHANGED callVars

\* main(training): print(training.show_training_info().get_message())
Main ==
    /\ pc = "main"
    /\ \E info \in show_training_info(training) :
          /\ message' = info
          /\ stdout' = Append(stdout, get_message(info))
    /\ i' = i + 1
    /\ pc' = "loop"
    /\ UNCHANGED <<packages, training, exc>>
    /\ UNCHANGED callVars

\* the for loop is exhausted
Exit ==
    /\ pc = "loop"
    /\ i > Len(packages)
    /\ pc' = "done"
    /\ UNCHANGED <<packages, i, training, message, stdout, exc>>
    /\ UNCHANGED callVars

Next == ReadPackage \/ Main \/ Exit

Spec == Init /\ [][Next]_vars

\* A step of the interpreter: every step of Next moves pc, and Next can take
\* a step exactly when pc is "loop" or "main".
Advance ==
    /\ pc \in {"loop", "main"}
    /\ pc' \in {"loop", "main", "done", "crashed"}

\* the interpreter runs the next statement as long as there is one
LiveSpec == Spec /\ WF_pc(Advance)

(***************************************************************************)
(* The methods called directly: two objects of one class, built by         *)
(* read_package, on which a caller invokes the methods in any order, each  *)
(* call made on both objects.                                              *)
(***************************************************************************)
MaxUnits == 3

MaxExcess == 1

MaxHours == 3

MaxLaps == 1

SampleWeight == 75

SampleHeight == 180

SampleLengthPool == 25

\* the n-th unit count: the small ones, then the ones from 2^DBL_MANT_DIG
\* on, where not every integer is a float
UnitCount(n) ==
    IF n <= MaxUnits THEN PyInt(n)
    ELSE IntOf(BAdd(BShl(<<1>>, DBL_MANT_DIG), BFromInt(n - MaxUnits - 1)))

Hours == {PyInt(n) : n \in 1..MaxHours}

Laps == {PyInt(n) : n \in 0..MaxLaps}

\* what follows action and duration in the data list of a class
Tails(code) ==
    IF code = "RUN" THEN {<<PyInt(SampleWeight)>>}
    ELSE IF code = "WLK" THEN {<<PyInt(SampleWeight), PyInt(SampleHeight)>>}
    ELSE {<<PyInt(SampleWeight), PyInt(SampleLengthPool), c>> : c \in Laps}

\* the unit counts of two objects, the first being the smaller
UnitPairs ==
    {n \in (0..(MaxUnits + MaxExcess + 1)) \X (0..(MaxUnits + MaxExcess + 1)) :
        n[1] <= n[2]}

\* two data lists of a class that differ in nothing but action and duration
DataLists(code) ==
    {<<<<UnitCount(n[1]), d1>> \o tl, <<UnitCount(n[2]), d2>> \o tl>> :
        n \in UnitPairs, d1 \in Hours, d2 \in Hours, tl \in Tails(code)}

ReadBoth(code, pair) ==
    <<read_package(code, pair[1]), read_package(code, pair[2])>>

InitCalls ==
    /\ packages = <<>>
    /\ i = 1
    /\ pc = "calls"
    /\ training = None
    /\ message = None
    /\ stdout = <<>>
    /\ exc = None
    /\ \E code \in DOMAIN trainings :
          objs \in {ReadBoth(code, pair) : pair \in DataLists(code)}
    /\ called = "none"
    /\ ret = <<>>
    /\ infos = <<>>

\* a call made on both objects: r[k] is what the call on objs[k] returns,
\* or the set of values it may return
Both(r) == <<r[1], r[2]>>

AnyOfBoth(r) == {<<x, y>> : x \in r[1], y \in r[2]}

CallGetDistance ==
    /\ pc = "calls"
    /\ called' = "get_distance"
    /\ ret' = Both([k \in 1..2 |-> get_distance(objs[k])])
    /\ infos' = <<>>
    /\ UNCHANGED objs
    /\ UNCHANGED runVars

CallGetMeanSpeed ==
    /\ pc = "calls"
    /\ called' = "get_mean_speed"
    /\ ret' = Both([k \in 1..2 |-> get_mean_speed(objs[k])])
    /\ infos' = <<>>
    /\ UNCHANGED objs
    /\ UNCHANGED runVars

\* seeded fault: get_spent_calories converts the stored duration to minutes
InMinutes(self) == [self EXCEPT !.duration = PyMul(self.duration, MIN_IN_H)]

CallGetSpentCaloriesConverting ==
    /\ pc = "calls"
    /\ called' = "get_spent_calories"
    /\ ret' \in AnyOfBoth([k \in 1..2 |-> get_spent_calories(objs[k])])
    /\ infos' = <<>>
    /\ objs' = <<InMinutes(objs[1]), InMinutes(objs[2])>>
    /\ UNCHANGED runVars

CallGetSpentCalories ==
    /\ pc = "calls"
    /\ called' = "get_spent_calories"
    /\ ret' \in AnyOfBoth([k \in 1..2 |-> get_spent_calories(objs[k])])
    /\ infos' = <<>>
    /\ UNCHANGED objs
    /\ UNCHANGED runVars

\* the caller keeps the InfoMessage objects returned until its next call
\* of a method of the trainings
CallShowTrainingInfo ==
    /\ pc = "calls"
    /\ called' = "show_training_info"
    /\ ret' \in AnyOfBoth([k \in 1..2 |-> show_training_info(objs[k])])
    /\ infos' = ret'
    /\ UNCHANGED objs
    /\ UNCHANGED runVars

\* get_message on the InfoMessage objects the caller keeps
CallGetMessage ==
    /\ pc = "calls"
    /\ infos # <<>>
    /\ called' = "get_message"
    /\ ret' = Both([k \in 1..2 |-> get_message(infos[k])])
    /\ UNCHANGED <<objs, infos>>
    /\ UNCHANGED runVars

NextCalls ==
    \/ CallGetDistance
    \/ CallGetMeanSpeed
    \/ CallGetSpentCalories
    \/ CallShowTrainingInfo
    \/ CallGetMessage

SpecCalls == InitCalls /\ [][NextCalls]_vars

(***************************************************************************)
(* Comparisons of the exact values of non-negative numbers, used to state  *)
(* the properties below.                                                   *)
(***************************************************************************)
\* the mantissa of v at exponent e <= v.e
Aligned(v, e) == BShl(v.m, v.e - e)

Gap(x, y) == IF BLess(x, y) THEN BSub(y, x) ELSE BSub(x, y)

LessAt(v, w, e) == BLess(Aligned(v, e), Aligned(w, e))

\* v < w
Less(v, w) == LessAt(v, w, IF v.e < w.e THEN v.e ELSE w.e)

CloseBy(x, y) ==
    BLeq(BShl(Gap(x, y), DBL_MANT_DIG - 4), IF BLess(x, y) THEN y ELSE x)

CloseAt(v, w, e) == CloseBy(Aligned(v, e), Aligned(w, e))

\* v and w differ by no more than a few roundings: by at most
\* 2^-(DBL_MANT_DIG - 4) of the larger
Close(v, w) == CloseAt(v, w, IF v.e < w.e THEN v.e ELSE w.e)

\* |v - num/den| <= 1/1000, for num < 2^31 and den < Base
Near(v, num, den) ==
    BLeq(Gap(BShl(BMulSmall(BMulSmall(v.m, 1000), den), NonNeg(v.e)),
             BShl(BMulSmall(BFromInt(num), 1000), NonNeg(0 - v.e))),
         BShl(BFromInt(den), NonNeg(0 - v.e)))

KnownCodes == {"SWM", "RUN", "WLK"}

(***************************************************************************)
(* Properties of read_package and of the run of the program (Spec).        *)
(***************************************************************************)
\* the loop is about to call read_package with an unknown code
UnknownCodeNext ==
    /\ pc = "loop"
    /\ i <= Len(packages)
    /\ packages[i][1] \notin KnownCodes

\* C1: read_package called with a workout_type other than 'SWM', 'RUN' and
\* 'WLK' always fails with KeyError, whatever the data list, and constructs
\* or returns no training: the step from such a call ends the run with that
\* exception, and leaves training and the output as they were.
C1_UnknownCodeFails ==
    [][UnknownCodeNext =>
          /\ pc' = "crashed"
          /\ exc' = Raise("KeyError")
          /\ training' = training
          /\ stdout' = stdout]_vars

C1_Witness ==
    /\ pc = "crashed"
    /\ exc = Raise("KeyError")
    /\ packages[i][1] \notin KnownCodes
    /\ Len(packages[i][2]) = 3
    /\ training # None

\* the record a well-formed package stands for: the class of its code, the
\* attributes in the order of the data list
Expected(p) ==
    CASE p[1] = "SWM" ->
            [cls |-> "Swimming", action |-> p[2][1], duration |-> p[2][2],
             weight |-> p[2][3], length_pool |-> p[2][4],
             count_pool |-> p[2][5]]
      [] p[1] = "RUN" ->
            [cls |-> "Running", action |-> p[2][1], duration |-> p[2][2],
             weight |-> p[2][3]]
      [] p[1] = "WLK" ->
            [cls |-> "SportsWalking", action |-> p[2][1],
             duration |-> p[2][2], weight |-> p[2][3], height |-> p[2][4]]

WellFormed(p) ==
    \/ p[1] = "SWM" /\ Len(p[2]) = 5
    \/ p[1] = "RUN" /\ Len(p[2]) = 3
    \/ p[1] = "WLK" /\ Len(p[2]) = 4

\* info is what the formulas of the class of o give for o
FormulasOfClass(o, info) ==
    /\ info.training_type = o.cls
    /\ info.duration = o.duration
    /\ info.distance = get_distance(o)
    /\ o.cls = "Running" =>
          /\ info.speed = Training_get_mean_speed(o)
          /\ info.calories = Running_get_spent_calories(o)
    /\ o.cls = "SportsWalking" =>
          /\ info.speed = Training_get_mean_speed(o)
          /\ info.calories \in SportsWalking_get_spent_calories(o)
    /\ o.cls = "Swimming" =>
          /\ info.speed = Swimming_get_mean_speed(o)
          /\ info.calories = Swimming_get_spent_calories(o)

\* C2: read_package with code 'SWM', 'RUN' or 'WLK' returns an object of
\* Swimming, Running or SportsWalking, whose attributes are the data in
\* order (action, duration, weight, then height, or length_pool and
\* count_pool), and the summary later made of it comes from the formulas of
\* that class.  A package with a known code and a data list of the right
\* length never fails.
C2_RecordMatchesPackage ==
    /\ pc = "main" => training = Expected(packages[i])
    /\ pc = "crashed" => ~WellFormed(packages[i])
    /\ (pc # "main" /\ message # None) => FormulasOfClass(training, message)

C2_Witness ==
    /\ pc = "loop"
    /\ i = 3
    /\ training = Expected(packages[2])
    /\ training.cls = "SportsWalking"
    /\ message.training_type = "SportsWalking"
    /\ packages[1][1] = "SWM"

\* the objects of the three packages of the source
RunningSample == Running(PyInt(15000), PyInt(1), PyInt(75))

WalkingSample == SportsWalking(PyInt(9000), PyInt(1), PyInt(75), PyInt(180))

SwimmingSample == Swimming(PyInt(720), PyInt(1), PyInt(80), PyInt(25), PyInt(40))

\* main has made and printed the summary of the object o
Shown(o) == pc # "main" /\ message # None /\ training = o

\* C3: for Running(15000, 1, 75) get_distance returns 9.75, get_mean_speed
\* returns 9.75, and get_spent_calories returns
\* (18 * 9.75 + 1.79) * 75 / 1000 * 1 * 60, which is 797.805 to within a
\* thousandth.
C3_RunningSample ==
    Shown(RunningSample) =>
        /\ message.distance = FloatLiteral(975, 100)
        /\ message.speed = FloatLiteral(975, 100)
        /\ Near(message.calories, 797805, 1000)

C3_Witness ==
    /\ Shown(RunningSample)
    /\ stdout[Len(stdout)].training_type = "Running"
    /\ stdout[Len(stdout)].calories = BFromInt(797805)

\* C3 as the specification states it: the calories are about 798.4575
C3_AsStated ==
    Shown(RunningSample) =>
        /\ message.distance = FloatLiteral(975, 100)
        /\ message.speed = FloatLiteral(975, 100)
        /\ Near(message.calories, 7984575, 10000)

\* C4: for SportsWalking(9000, 1, 75, 180) get_distance returns 5.85,
\* get_mean_speed returns 5.85, and get_spent_calories, computed as
\* (0.035 * weight + ((speed * 0.278)**2 / (height / 100)) * 0.029 * weight)
\* * duration * 60, is 349.252 to within a thousandth.
C4_WalkingSample ==
    Shown(WalkingSample) =>
        /\ message.distance = FloatLiteral(585, 100)
        /\ message.speed = FloatLiteral(585, 100)
        /\ Near(message.calories, 349252, 1000)

C4_Witness ==
    /\ Shown(WalkingSample)
    /\ stdout[Len(stdout)].training_type = "SportsWalking"
    /\ stdout[Len(stdout)].calories = BFromInt(349252)

\* C4 as the specification states it: the calories are about 162.876
C4_AsStated ==
    Shown(WalkingSample) =>
        /\ message.distance = FloatLiteral(585, 100)
        /\ message.speed = FloatLiteral(585, 100)
        /\ Near(message.calories, 162876, 1000)

\* C5: for Swimming(720, 1, 80, 25, 40) get_distance returns
\* 720 * 1.38 / 1000, which is 0.9936 to within a thousandth, get_mean_speed
\* returns 25 * 40 / 1000 / 1 = 1.0, and get_spent_calories returns
\* (1.0 + 1.1) * 2 * 80 * 1 = 336.0.
C5_SwimmingSample ==
    Shown(SwimmingSample) =>
        /\ Near(message.distance, 9936, 10000)
        /\ message.speed = ToFloat(PyInt(1))
        /\ message.calories = ToFloat(PyInt(336))

C5_Witness ==
    /\ Shown(SwimmingSample)
    /\ stdout[Len(stdout)].training_type = "Swimming"
    /\ stdout[Len(stdout)].distance = BFromInt(994)
    /\ stdout[Len(stdout)].calories = BFromInt(336000)

\* C5 as the specification states it: the distance is 0.414
C5_AsStated ==
    Shown(SwimmingSample) =>
        /\ Near(message.distance, 414, 1000)
        /\ message.speed = ToFloat(PyInt(1))
        /\ message.calories = ToFloat(PyInt(336))

\* what the run has printed is the summaries of the first packages, in order
PrintedInOrder ==
    /\ Len(stdout) = i - 1
    /\ \A k \in 1..Len(stdout) :
          /\ packages[k][1] \in KnownCodes
          /\ stdout[k].training_type = trainings[packages[k][1]]

C9_Safety ==
    /\ PrintedInOrder
    /\ pc = "done" => Len(stdout) = Len(packages)
    /\ pc = "crashed" => i <= Len(packages) /\ exc # None
    /\ \A k \in 1..Len(packages) : packages[k][1] \notin KnownCodes => i <= k
    /\ packages = PACKAGES => pc # "crashed"
    /\ (packages = PACKAGES /\ pc = "done") =>
          /\ stdout[1].training_type = "Swimming"
          /\ stdout[2].training_type = "Running"
          /\ stdout[3].training_type = "SportsWalking"

Terminated == pc \in {"done", "crashed"}

\* C9: the run goes through the packages in list order (for the list of the
\* source: SWM, RUN, WLK), printing exactly one summary per package before
\* it reads the next, and then terminates; at a package with an unknown
\* code the exception ends the run, which prints no summary for that
\* package or any later one.  Once terminated, the run takes no step.
C9_SequentialRun ==
    /\ []C9_Safety
    /\ [][~Terminated]_vars
    /\ <>Terminated

C9_Witness ==
    /\ pc = "crashed"
    /\ exc = Raise("KeyError")
    /\ i = 3
    /\ Len(stdout) = 2
    /\ packages[3][1] \notin KnownCodes

(***************************************************************************)
(* Properties of the methods called directly (SpecCalls).                  *)
(***************************************************************************)
\* the second object has the unit count and the duration of the first,
\* both multiplied by the same factor
ScaledPair ==
    /\ IsInt(objs[1].duration) /\ IsInt(objs[2].duration)
    /\ BMul(objs[1].action.m, objs[2].duration.m)
          = BMul(objs[2].action.m, objs[1].duration.m)

\* the duration of the second object is at least twice that of the first
TwiceAsLong ==
    BLeq(BMulSmall(objs[1].duration.m, 2), objs[2].duration.m)

C7_DistanceOrder ==
    (called = "get_distance" /\ BLess(objs[1].action.m, objs[2].action.m)) =>
        /\ ~Less(ret[2], ret[1])
        /\ BBitLen(objs[2].action.m) <= DBL_MANT_DIG - 3 => Less(ret[1], ret[2])

C7_Witness ==
    /\ called = "get_distance"
    /\ objs[1].cls = "SportsWalking"
    /\ objs[1].action = PyInt(2)
    /\ objs[2].action = PyInt(3)
    /\ Less(objs[2].duration, objs[1].duration)
    /\ Less(ret[1], ret[2])

\* C7 as the specification states it: strictly less for all a < b
C7_AsStated ==
    (called = "get_distance" /\ BLess(objs[1].action.m, objs[2].action.m)) =>
        Less(ret[1], ret[2])

\* C8: no call of get_distance, get_mean_speed, get_spent_calories or
\* show_training_info changes a field of the object it is called on, so
\* after any sequence of calls each field has the value it was constructed
\* with; and get_message does not change the InfoMessage it is called on.
C8_Immutable ==
    [][/\ objs' = objs
       /\ called' = "get_message" => infos' = infos]_vars

C8_Witness ==
    /\ called = "get_message"
    /\ infos # <<>>
    /\ objs[1].cls = "SportsWalking"
    /\ objs[1].height = PyInt(SampleHeight)
    /\ ret[1].training_type = "SportsWalking"

\* two Swimming objects that agree on all fields but the unit count
SwimmingPair ==
    /\ objs[1].cls = "Swimming"
    /\ objs[2].cls = "Swimming"
    /\ objs[1].action # objs[2].action
    /\ objs[1].duration = objs[2].duration
    /\ objs[1].weight = objs[2].weight
    /\ objs[1].length_pool = objs[2].length_pool
    /\ objs[1].count_pool = objs[2].count_pool

\* C10: two Swimming objects that agree on duration, weight, length_pool
\* and count_pool but differ in action have the same get_mean_speed and the
\* same get_spent_calories, also in their summaries.
C10_SwimmingIgnoresAction ==
    SwimmingPair =>
        /\ called \in {"get_mean_speed", "get_spent_calories"} => ret[1] = ret[2]
        /\ called = "show_training_info" =>
              /\ ret[1].speed = ret[2].speed
              /\ ret[1].calories = ret[2].calories

\* the summaries differ in the distance only, and the speed of a summary is
\* not its distance divided by its duration
C10_Witness ==
    /\ SwimmingPair
    /\ called = "show_training_info"
    /\ ret[1].distance # ret[2].distance
    /\ ret[1].speed = ret[2].speed
    /\ ret[1].speed # PyTrueDiv(ret[1].distance, ret[1].duration)
====
